---- MODULE Spec2Model ----
(***************************************************************************)
(* Model of the customer duplication orchestrator of the synthetic retail  *)
(* data generator: generate_customer_dataset_in_batches in                 *)
(* src/src/customer_generator.py, with the storage sink                    *)
(* DBManager.load_customers of src/src/db_manager.py.                      *)
(*                                                                         *)
(* A customer record carries the fields the orchestrator reads:            *)
(* customer_id, source_id and the internal _original_country (written      *)
(* original_country here).  The record handed to the sink is the same      *)
(* record without original_country.                                        *)
(*                                                                         *)
(* Rates are rationals <<numerator, denominator>>: 0.2 is <<1, 5>>.  For   *)
(* the rates enumerated here Python's int(N / (1 + r)) and int(d * m) on   *)
(* floats equal the integer quotients below for all N, d < 200000.         *)
(***************************************************************************)
EXTENDS Integers, Sequences, FiniteSets, TLC

\* ---------------------------------------------------------------- bounds
MaxN == 6
MaxBatch == 3

\* ---------------------------------------------------------- input domains
\* num_customers and batch_size arguments of the orchestrator
PopulationSizes == 0..MaxN
BatchSizes == 1..MaxBatch

\* CUSTOMER_DUPLICATION_RATE: 0.2 as configured, and 1.0, 2.0
DuplicationRates == {<<1, 5>>, <<1, 1>>, <<2, 1>>}
\* EMAIL_PHONE_MATCH_RATE: 0.8 as configured, and 0.5
MatchRates == {<<4, 5>>, <<1, 2>>}

\* keys of CUSTOMER_SOURCES
CUSTOMER_SOURCES == {1, 2}
\* two of the keys of COUNTRY_WEIGHTS
COUNTRY_WEIGHTS == {"Italy", "Japan"}

\* The identifier space: larger than any population a run can produce
\* (the code draws from 36^10 identifiers).
CustomerIds == 1..(MaxN + 2)

VARIABLES
    pc,                       \* position of the run in the function body
    num_customers,            \* argument
    batch_size,               \* argument
    duplication_rate,         \* config.CUSTOMER_DUPLICATION_RATE
    match_rate,               \* config.EMAIL_PHONE_MATCH_RATE
    used_ids,
    all_customer_info,
    all_base_customers,
    num_base_customers,
    num_duplicates,
    num_batches,
    batch_idx,
    current_batch_size,
    customers_batch,
    customer,                 \* the record being made unique (customer / duplicate)
    base,                     \* loop variable of the two duplicate loops
    num_duplicates_possible,
    num_email_phone_matches,
    num_name_matches,
    email_phone_customers,
    name_match_customers,
    dup_idx,                  \* position in the list a duplicate loop iterates
    duplicate_batches,
    duplicate_batch,
    load_idx,                 \* position of the loading loop in duplicate_batches
    sink,                     \* the batches load_customers has inserted, in order
    warned,                   \* the shortfall warning has been printed
    result,                   \* <<>> until the function returns, then <<list>>
    raised,                   \* a load_customers call has raised
    produced,                 \* history: [rec, src, match_type] per accepted record
    call,                     \* arguments of a function run on its own
    local,                    \* its local variables
    ret                       \* its outcome

vars == <<pc, num_customers, batch_size, duplication_rate, match_rate, used_ids,
          all_customer_info, all_base_customers, num_base_customers,
          num_duplicates, num_batches, batch_idx, current_batch_size,
          customers_batch, customer, base, num_duplicates_possible,
          num_email_phone_matches, num_name_matches, email_phone_customers,
          name_match_customers, dup_idx, duplicate_batches, duplicate_batch,
          load_idx, sink, warned, result, raised, produced, call, local, ret>>

\* ------------------------------------------------------------ pure helpers
Min(a, b) == IF a <= b THEN a ELSE b

Max(a, b) == IF a >= b THEN a ELSE b

\* int(n * den / (den + num)): num_customers / (1 + rate), truncated
PlanBaseCeil(n, rate) == (n * rate[2] + rate[1] + rate[2] - 1) \div (rate[1] + rate[2])

PlanBase(n, rate) == (n * rate[2]) \div (rate[1] + rate[2])

\* int(d * rate), truncated
MatchCountCeil(d, rate) == (d * rate[1] + rate[2] - 1) \div rate[2]

MatchCount(d, rate) == (d * rate[1]) \div rate[2]

\* max(1, (num_base_customers + batch_size - 1) // batch_size)
NumBatchesFloor(nb, bs) == Max(1, nb \div bs)

NumBatches(nb, bs) == Max(1, (nb + bs - 1) \div bs)

\* min(batch_size, num_base_customers - batch_idx * batch_size), at least 1
CurrentBatchSizeFull(nb, bs, idx) == bs

CurrentBatchSize(nb, bs, idx) ==
    LET c == Min(bs, nb - idx * bs)
    IN  IF c <= 0 THEN 1 ELSE c

\* min(num_duplicates, len(all_base_customers))
DuplicatesPossiblePlanned(nd, nbases) == nd

DuplicatesPossible(nd, nbases) == Min(nd, nbases)

\* num_duplicates_possible < num_duplicates: the shortfall warning is printed
ShortfallWarningReversed(possible, planned) == possible > planned

ShortfallWarning(possible, planned) == possible < planned

\* customer["customer_id"] in used_ids
IdCollidesNever(id, used) == FALSE

IdCollides(id, used) == id \in used

\* a generator whose draws are all used once an identifier has been used
GenerateCustomerIdUsed(used) ==
    IF used = {} THEN {CHOOSE i \in CustomerIds : \A j \in CustomerIds : i <= j}
    ELSE {CHOOSE u \in used : \A v \in used : u >= v}

\* generate_customer_id(): a random identifier.  The code only tests it for
\* membership in used_ids, so a draw either collides or is unused: the greatest
\* used identifier stands for the colliding draws, the least unused one for
\* the others.
GenerateCustomerId(used) ==
    LET unused == CustomerIds \ used
    IN  {CHOOSE i \in unused : \A j \in unused : i <= j}
            \cup (IF used = {} THEN {}
                  ELSE {CHOOSE u \in used : \A v \in used : u >= v})

\* 1 if base_customer["source_id"] == 2 else 2
FlipSourceKeep(s) == s

FlipSource(s) == IF s = 2 THEN 1 ELSE 2

\* generate_customer(): the records it can return
generate_customer(used) ==
    { [customer_id |-> i, source_id |-> s, original_country |-> c] :
        i \in GenerateCustomerId(used), s \in CUSTOMER_SOURCES, c \in COUNTRY_WEIGHTS }

\* create_duplicate_customer(base, match_type): on both match types and on the
\* except path the copy gets a new id and the opposite source
create_duplicate_customer(b, match_type, used) ==
    { [b EXCEPT !.customer_id = i, !.source_id = FlipSource(b.source_id)] :
        i \in GenerateCustomerId(used) }

\* the loop left after its first turn
BaseLoopOverAfterOne(idx, n) == idx >= 1

\* line 584: for batch_idx in range(num_batches) has no turn left
BaseLoopOver(idx, n) == idx >= n

\* the retained records when the duplicate is written into base_customer itself
RetainedAliased(retained, base_customer, duplicate) ==
    [i \in 1..Len(retained) |->
        IF retained[i] = base_customer THEN duplicate ELSE retained[i]]

\* line 446: duplicate = base_customer.copy(); the assignments that follow
\* write into the copy, so the records of all_base_customers stay as they are
RetainedAfterDuplicate(retained, base_customer, duplicate) == retained

\* the dict appended to all_customer_info
CustomerInfoBeforeFlip(c) ==
    [customer_id |-> c.customer_id, country |-> c.original_country,
     source_id |-> FlipSource(c.source_id)]

CustomerInfo(c) ==
    [customer_id |-> c.customer_id, country |-> c.original_country,
     source_id |-> c.source_id]

\* customer.copy() with "_original_country" popped
ForDbKeep(c) == c

ForDb(c) == [f \in DOMAIN c \ {"original_country"} |-> c[f]]

\* random.sample(population, k): k positions without replacement, in any order
SampleWithReplacement(population, k) ==
    { [i \in 1..k |-> population[p[i]]] : p \in [1..k -> 1..Len(population)] }

Sample(population, k) ==
    { [i \in 1..k |-> population[p[i]]] :
        p \in { q \in [1..k -> 1..Len(population)] :
                  \A i, j \in 1..k : i # j => q[i] # q[j] } }

\* where the run goes when load_customers raises: the exception is re-raised
\* by load_customers and not caught by the orchestrator
AfterLoadErrorSwallowed(next) == next

AfterLoadError(next) == "failed"

NoCustomer == [customer_id |-> 0, source_id |-> 0, original_country |-> ""]

\* ------------------------------------------------------------------- Init
Init ==
    /\ pc = "plan"
    /\ num_customers \in PopulationSizes
    /\ batch_size \in BatchSizes
    /\ duplication_rate \in DuplicationRates
    /\ match_rate \in MatchRates
    /\ used_ids = {}
    /\ all_customer_info = <<>>
    /\ all_base_customers = <<>>
    /\ num_base_customers = 0
    /\ num_duplicates = 0
    /\ num_batches = 0
    /\ batch_idx = 0
    /\ current_batch_size = 0
    /\ customers_batch = <<>>
    /\ customer = NoCustomer
    /\ base = NoCustomer
    /\ num_duplicates_possible = 0
    /\ num_email_phone_matches = 0
    /\ num_name_matches = 0
    /\ email_phone_customers = <<>>
    /\ name_match_customers = <<>>
    /\ dup_idx = 0
    /\ duplicate_batches = <<>>
    /\ duplicate_batch = <<>>
    /\ load_idx = 0
    /\ sink = <<>>
    /\ warned = FALSE
    /\ result = <<>>
    /\ raised = FALSE
    /\ produced = <<>>
    /\ call = <<>>
    /\ local = <<>>
    /\ ret = <<>>

\* ---------------------------------------------------------- variable groups
config_vars == <<num_customers, batch_size, duplication_rate, match_rate>>

plan_vars == <<num_base_customers, num_duplicates, num_batches>>

base_vars == <<batch_idx, current_batch_size, customers_batch>>

accepted_vars == <<used_ids, all_customer_info, produced>>

partition_vars == <<num_duplicates_possible, warned, num_email_phone_matches,
                    num_name_matches, email_phone_customers, name_match_customers>>

dup_vars == <<base, dup_idx, duplicate_batches, duplicate_batch, load_idx>>

end_vars == <<sink, result, raised>>

unit_vars == <<call, local, ret>>

\* ---------------------------------------------------------------- actions
\* lines 572-582: the plan
Plan ==
    /\ pc = "plan"
    /\ num_base_customers' = PlanBase(num_customers, duplication_rate)
    /\ num_duplicates' = num_customers - num_base_customers'
    /\ num_batches' = NumBatches(num_base_customers', batch_size)
    /\ pc' = "base_batch"
    /\ UNCHANGED <<unit_vars, config_vars, base_vars, accepted_vars, all_base_customers,
                   customer, partition_vars, dup_vars, end_vars>>

\* lines 584-593: an iteration of the batch loop starts
BeginBaseBatch ==
    /\ pc = "base_batch"
    /\ ~BaseLoopOver(batch_idx, num_batches)
    /\ current_batch_size' = CurrentBatchSize(num_base_customers, batch_size, batch_idx)
    /\ customers_batch' = <<>>
    /\ pc' = "base_gen"
    /\ UNCHANGED <<unit_vars, config_vars, plan_vars, batch_idx, accepted_vars,
                   all_base_customers, customer, partition_vars, dup_vars, end_vars>>

\* lines 594-595: customer = generate_customer()
GenerateBase ==
    /\ pc = "base_gen"
    /\ Len(customers_batch) < current_batch_size
    /\ customer' \in generate_customer(used_ids)
    /\ pc' = "base_uniq"
    /\ UNCHANGED <<unit_vars, config_vars, plan_vars, base_vars, accepted_vars,
                   all_base_customers, partition_vars, dup_vars, end_vars>>

\* lines 598-599, 652-653, 681-682: one turn of a re-roll loop
RerollId(at) ==
    /\ pc = at
    /\ IdCollides(customer.customer_id, used_ids)
    /\ \E i \in GenerateCustomerId(used_ids) :
           customer' = [customer EXCEPT !.customer_id = i]
    /\ UNCHANGED <<pc, unit_vars, config_vars, plan_vars, base_vars, accepted_vars,
                   all_base_customers, partition_vars, dup_vars, end_vars>>

RerollBaseId == RerollId("base_uniq")

\* lines 601-616: the base customer is accepted
AcceptBase ==
    /\ pc = "base_uniq"
    /\ ~IdCollides(customer.customer_id, used_ids)
    /\ used_ids' = used_ids \cup {customer.customer_id}
    /\ all_customer_info' = Append(all_customer_info, CustomerInfo(customer))
    /\ all_base_customers' = Append(all_base_customers, customer)
    /\ customers_batch' = Append(customers_batch, ForDb(customer))
    /\ produced' = Append(produced,
                          [rec |-> customer, src |-> NoCustomer, match_type |-> "base"])
    /\ pc' = "base_gen"
    /\ UNCHANGED <<unit_vars, config_vars, plan_vars, batch_idx, current_batch_size, customer,
                   partition_vars, dup_vars, end_vars>>

\* lines 618-620: the batch is handed to load_customers, which inserts it
FlushBase ==
    /\ pc = "base_gen"
    /\ Len(customers_batch) >= current_batch_size
    /\ sink' = Append(sink, customers_batch)
    /\ batch_idx' = batch_idx + 1
    /\ pc' = "base_batch"
    /\ UNCHANGED <<unit_vars, config_vars, plan_vars, current_batch_size, customers_batch,
                   accepted_vars, all_base_customers, customer, partition_vars,
                   dup_vars, result, raised>>

\* lines 618-620 with db_manager.py 90-92: the insert raises
FlushBaseFails ==
    /\ pc = "base_gen"
    /\ Len(customers_batch) >= current_batch_size
    /\ raised' = TRUE
    /\ pc' = AfterLoadError("base_batch")
    /\ batch_idx' = IF pc' = "base_batch" THEN batch_idx + 1 ELSE batch_idx
    /\ UNCHANGED <<unit_vars, config_vars, plan_vars, current_batch_size, customers_batch,
                   accepted_vars, all_base_customers, customer, partition_vars,
                   dup_vars, sink, result>>

\* lines 622-630 and 714-715: the clamp, the warning and the branch
ClampDuplicates ==
    /\ pc = "base_batch"
    /\ BaseLoopOver(batch_idx, num_batches)
    /\ num_duplicates_possible' =
           DuplicatesPossible(num_duplicates, Len(all_base_customers))
    /\ warned' = ShortfallWarning(num_duplicates_possible', num_duplicates)
    /\ pc' = IF Len(all_base_customers) > 0 /\ num_duplicates_possible' > 0
             THEN "partition" ELSE "close"
    /\ UNCHANGED <<unit_vars, config_vars, plan_vars, base_vars, accepted_vars,
                   all_base_customers, customer, num_email_phone_matches,
                   num_name_matches, email_phone_customers, name_match_customers,
                   dup_vars, end_vars>>

\* lines 632-645: the split, the sample and its two slices
Partition ==
    /\ pc = "partition"
    /\ num_email_phone_matches' = MatchCount(num_duplicates_possible, match_rate)
    /\ num_name_matches' = num_duplicates_possible - num_email_phone_matches'
    /\ \E customers_to_duplicate \in Sample(all_base_customers, num_duplicates_possible) :
           /\ email_phone_customers' =
                  SubSeq(customers_to_duplicate, 1, num_email_phone_matches')
           /\ name_match_customers' =
                  SubSeq(customers_to_duplicate, num_email_phone_matches' + 1,
                         num_email_phone_matches' + num_name_matches')
    /\ duplicate_batches' = <<>>
    /\ duplicate_batch' = <<>>
    /\ dup_idx' = 1
    /\ pc' = "ep_loop"
    /\ UNCHANGED <<unit_vars, config_vars, plan_vars, base_vars, accepted_vars,
                   all_base_customers, customer, num_duplicates_possible, warned,
                   base, load_idx, end_vars>>

\* lines 648-649 and 677-678: duplicate = create_duplicate_customer(base, type)
CreateDuplicate(at, todo, match_type, uniq) ==
    /\ pc = at
    /\ dup_idx <= Len(todo)
    /\ base' = todo[dup_idx]
    /\ customer' \in create_duplicate_customer(todo[dup_idx], match_type, used_ids)
    /\ all_base_customers' = RetainedAfterDuplicate(all_base_customers, todo[dup_idx],
                                                    customer')
    /\ pc' = uniq
    /\ UNCHANGED <<unit_vars, config_vars, plan_vars, base_vars, accepted_vars,
                   partition_vars, dup_idx, duplicate_batches,
                   duplicate_batch, load_idx, end_vars>>

CreateEmailPhoneDuplicate ==
    CreateDuplicate("ep_loop", email_phone_customers, "email_phone", "ep_uniq")

CreateNameDuplicate ==
    CreateDuplicate("nm_loop", name_match_customers, "name", "nm_uniq")

RerollEmailPhoneId == RerollId("ep_uniq")

RerollNameId == RerollId("nm_uniq")

\* lines 655-674 and 684-703: the duplicate is accepted and batched
AcceptDuplicate(uniq, match_type, loop) ==
    /\ pc = uniq
    /\ ~IdCollides(customer.customer_id, used_ids)
    /\ used_ids' = used_ids \cup {customer.customer_id}
    /\ all_customer_info' = Append(all_customer_info, CustomerInfo(customer))
    /\ produced' = Append(produced,
                          [rec |-> customer, src |-> base, match_type |-> match_type])
    /\ LET filled == Append(duplicate_batch, ForDb(customer))
       IN  IF Len(filled) >= batch_size
           THEN /\ duplicate_batches' = Append(duplicate_batches, filled)
                /\ duplicate_batch' = <<>>
           ELSE /\ duplicate_batches' = duplicate_batches
                /\ duplicate_batch' = filled
    /\ dup_idx' = dup_idx + 1
    /\ pc' = loop
    /\ UNCHANGED <<unit_vars, config_vars, plan_vars, base_vars, all_base_customers, customer,
                   partition_vars, base, load_idx, end_vars>>

AcceptEmailPhoneDuplicate == AcceptDuplicate("ep_uniq", "email_phone", "ep_loop")

AcceptNameDuplicate == AcceptDuplicate("nm_uniq", "name", "nm_loop")

\* line 676: the email/phone loop is over, the name loop starts
EndEmailPhoneLoop ==
    /\ pc = "ep_loop"
    /\ dup_idx > Len(email_phone_customers)
    /\ dup_idx' = 1
    /\ pc' = "nm_loop"
    /\ UNCHANGED <<unit_vars, config_vars, plan_vars, base_vars, accepted_vars,
                   all_base_customers, customer, partition_vars, base,
                   duplicate_batches, duplicate_batch, load_idx, end_vars>>

\* lines 705-707: the name loop is over, the partial batch joins the list
EndNameLoop ==
    /\ pc = "nm_loop"
    /\ dup_idx > Len(name_match_customers)
    /\ duplicate_batches' = IF duplicate_batch # <<>>
                            THEN Append(duplicate_batches, duplicate_batch)
                            ELSE duplicate_batches
    /\ load_idx' = 1
    /\ pc' = "load"
    /\ UNCHANGED <<unit_vars, config_vars, plan_vars, base_vars, accepted_vars,
                   all_base_customers, customer, partition_vars, base, dup_idx,
                   duplicate_batch, end_vars>>

\* lines 710-713: one duplicate batch is handed to load_customers
LoadDuplicateBatch ==
    /\ pc = "load"
    /\ load_idx <= Len(duplicate_batches)
    /\ sink' = Append(sink, duplicate_batches[load_idx])
    /\ load_idx' = load_idx + 1
    /\ UNCHANGED <<pc, unit_vars, config_vars, plan_vars, base_vars, accepted_vars,
                   all_base_customers, customer, partition_vars, base, dup_idx,
                   duplicate_batches, duplicate_batch, result, raised>>

\* lines 710-713 with db_manager.py 90-92: the insert raises
LoadDuplicateBatchFails ==
    /\ pc = "load"
    /\ load_idx <= Len(duplicate_batches)
    /\ raised' = TRUE
    /\ pc' = AfterLoadError("load")
    /\ load_idx' = IF pc' = "load" THEN load_idx + 1 ELSE load_idx
    /\ UNCHANGED <<unit_vars, config_vars, plan_vars, base_vars, accepted_vars,
                   all_base_customers, customer, partition_vars, base, dup_idx,
                   duplicate_batches, duplicate_batch, sink, result>>

\* lines 717-721: close and return all_customer_info
Return ==
    /\ \/ pc = "close"
       \/ pc = "load" /\ load_idx > Len(duplicate_batches)
    /\ result' = <<all_customer_info>>
    /\ pc' = "done"
    /\ UNCHANGED <<unit_vars, config_vars, plan_vars, base_vars, accepted_vars,
                   all_base_customers, customer, partition_vars, dup_vars, sink,
                   raised>>

Next ==
    \/ Plan
    \/ BeginBaseBatch
    \/ GenerateBase
    \/ RerollBaseId
    \/ AcceptBase
    \/ FlushBase
    \/ FlushBaseFails
    \/ ClampDuplicates
    \/ Partition
    \/ CreateEmailPhoneDuplicate
    \/ RerollEmailPhoneId
    \/ AcceptEmailPhoneDuplicate
    \/ EndEmailPhoneLoop
    \/ CreateNameDuplicate
    \/ RerollNameId
    \/ AcceptNameDuplicate
    \/ EndNameLoop
    \/ LoadDuplicateBatch
    \/ LoadDuplicateBatchFails
    \/ Return

Spec == Init /\ [][Next]_vars

\* ------------------------------------------------------- derived quantities
RECURSIVE Flatten(_)
Flatten(batches) ==
    IF batches = <<>> THEN <<>> ELSE Head(batches) \o Flatten(Tail(batches))

\* every row load_customers has inserted, in order
SinkRows == Flatten(sink)

IdsOf(rows) == { rows[i].customer_id : i \in 1..Len(rows) }

\* no two rows share a customer_id
DistinctIds(rows) == Cardinality(IdsOf(rows)) = Len(rows)

\* positions of the duplicates in the history of accepted records
DuplicatesProduced == { i \in 1..Len(produced) : produced[i].match_type # "base" }

ProducedAs(match_type) ==
    { i \in 1..Len(produced) : produced[i].match_type = match_type }

BaseStageOver == pc = "base_batch" /\ batch_idx >= num_batches

AfterClamp ==
    pc \in {"partition", "ep_loop", "ep_uniq", "nm_loop", "nm_uniq", "load", "close",
            "done"}

AfterPartition == pc \in {"ep_loop", "ep_uniq", "nm_loop", "nm_uniq", "load"}

\* ------------------------------------------------------------------ claims

\* C1: in every state the customer_ids accepted so far are pairwise distinct,
\* in the carry-forward list and in the rows handed to the sink, over bases
\* and duplicates and over all batches, and there are as many distinct ids as
\* customers produced.
C1_CustomerIdsUnique ==
    LET rows == SinkRows
        ids == IdsOf(all_customer_info)
    IN  /\ DistinctIds(all_customer_info)
        /\ DistinctIds(rows)
        /\ pc \in {"ep_loop", "ep_uniq", "nm_loop", "nm_uniq"} =>
               DistinctIds(rows \o Flatten(duplicate_batches) \o duplicate_batch)
        /\ IdsOf(rows) \subseteq ids
        /\ Cardinality(ids) = Len(produced)
        /\ used_ids = ids

\* a duplicate drew an id that is already used, after two batches were flushed
C1_Witness ==
    /\ pc = "nm_uniq"
    /\ customer.customer_id \in used_ids
    /\ Len(sink) >= 2

\* C2 (as claimed): a run that completes without a shortfall has produced
\* exactly num_customers customers.
C2_TotalEqualsRequested ==
    (pc = "done" /\ ~warned) => Len(all_customer_info) = num_customers

\* C3 (as claimed): the planned base count is num_customers / (1 + rate)
\* rounded to the nearest integer, and the duplicates are the rest.
C3_BaseCountRounded ==
    pc # "plan" =>
        LET n == duplication_rate[1]
            d == duplication_rate[2]
            diff == num_base_customers * (n + d) - num_customers * d
        IN  /\ 2 * diff <= n + d
            /\ 2 * diff >= -(n + d)
            /\ num_duplicates = num_customers - num_base_customers

\* C3 (amended): the planned base count is num_customers / (1 + rate)
\* truncated to an integer, and the duplicates are the rest.
C3_BaseCountTruncated ==
    pc # "plan" =>
        LET n == duplication_rate[1]
            d == duplication_rate[2]
        IN  /\ num_base_customers * (n + d) <= num_customers * d
            /\ num_customers * d < (num_base_customers + 1) * (n + d)
            /\ num_duplicates = num_customers - num_base_customers

\* the quotient has a fraction above one half: 2 / 1.2, 5 / 1.2
C3_Witness ==
    /\ pc # "plan"
    /\ LET n == duplication_rate[1]
           d == duplication_rate[2]
       IN  2 * (num_customers * d - num_base_customers * (n + d)) > n + d

\* C4: the duplicates produced are min(planned duplicates, base records
\* produced): the clamp computes it and a completed run has produced that many.
C4_DuplicatesClamped ==
    LET bases == Len(all_base_customers)
        least == IF num_duplicates <= bases THEN num_duplicates ELSE bases
    IN  /\ AfterClamp => num_duplicates_possible = least
        /\ pc = "done" =>
               /\ Cardinality(DuplicatesProduced) = least
               /\ Cardinality(DuplicatesProduced) <= num_duplicates
               /\ bases >= num_duplicates =>
                      Cardinality(DuplicatesProduced) = num_duplicates

\* a completed run with fewer base records than planned duplicates
C4_Witness ==
    /\ pc = "done"
    /\ Len(all_base_customers) < num_duplicates
    /\ Cardinality(DuplicatesProduced) >= 2

\* C5 (as claimed): the exact-contact count is realized duplicates times the
\* match rate rounded to the nearest integer, the fuzzy-name count the rest.
C5_MatchCountRounded ==
    AfterPartition =>
        LET n == match_rate[1]
            d == match_rate[2]
            diff == num_email_phone_matches * d - num_duplicates_possible * n
        IN  /\ 2 * diff <= d
            /\ 2 * diff >= -d
            /\ num_name_matches = num_duplicates_possible - num_email_phone_matches

\* C5 (amended): the exact-contact count is realized duplicates times the match
\* rate truncated to an integer, the fuzzy-name count the rest, and once the
\* two loops are over that many duplicates of each kind have been produced.
C5_MatchCountTruncated ==
    AfterPartition =>
        LET n == match_rate[1]
            d == match_rate[2]
        IN  /\ num_email_phone_matches * d <= num_duplicates_possible * n
            /\ num_duplicates_possible * n < (num_email_phone_matches + 1) * d
            /\ num_name_matches = num_duplicates_possible - num_email_phone_matches
            /\ Len(email_phone_customers) = num_email_phone_matches
            /\ Len(name_match_customers) = num_name_matches
            /\ pc = "load" =>
                   /\ Cardinality(ProducedAs("email_phone")) = num_email_phone_matches
                   /\ Cardinality(ProducedAs("name")) = num_name_matches

\* both loops are over and the product had a fraction above one half: 2 * 0.8
C5_Witness ==
    /\ pc = "load"
    /\ num_email_phone_matches >= 1
    /\ LET n == match_rate[1]
           d == match_rate[2]
       IN  2 * (num_duplicates_possible * n - num_email_phone_matches * d) > d

\* C6: the base records chosen as duplication sources are pairwise distinct;
\* no base record is the source of two duplicates, and the exact-contact and
\* fuzzy-name sources are disjoint.
C6_SourcesDistinct ==
    /\ AfterPartition =>
           /\ DistinctIds(email_phone_customers \o name_match_customers)
           /\ IdsOf(email_phone_customers) \cap IdsOf(name_match_customers) = {}
    /\ \A i, j \in DuplicatesProduced :
           i # j => produced[i].src.customer_id # produced[j].src.customer_id

\* three duplicates of both kinds have been produced
C6_Witness ==
    /\ pc = "load"
    /\ Cardinality(ProducedAs("email_phone")) >= 1
    /\ Cardinality(ProducedAs("name")) >= 1
    /\ Cardinality(DuplicatesProduced) >= 3

\* C7 (as claimed): while a duplicate is being produced, every duplicate batch
\* that has filled has already been handed to load_customers.
C7_DuplicateBatchFlushedWhenFull ==
    pc \in {"ep_uniq", "nm_uniq"} =>
        \A k \in 1..Len(duplicate_batches) :
            \E f \in 1..Len(sink) : sink[f] = duplicate_batches[k]

\* C8: with a planned base count of at least 1 the base stage makes
\* ceil(base_count / B) flush calls, each of B rows but the last, which holds
\* the rest.
C8_BaseFlushSizes ==
    (BaseStageOver /\ num_base_customers >= 1) =>
        LET k == Len(sink)
        IN  /\ k >= 1
            /\ k * batch_size >= num_base_customers
            /\ (k - 1) * batch_size < num_base_customers
            /\ \A i \in 1..(k - 1) : Len(sink[i]) = batch_size
            /\ Len(sink[k]) = num_base_customers - batch_size * (k - 1)

\* three flushes, the last one partial: 5 bases in batches of 2
C8_Witness ==
    /\ BaseStageOver
    /\ num_base_customers >= 1
    /\ Len(sink) = 3
    /\ Len(sink[3]) < batch_size

\* C9: a completed run returns one carry-forward record per customer produced,
\* bases then duplicates, each with the id and source of the row handed to the
\* sink and the origin country of the customer's record.
C9_CarryForwardComplete ==
    pc = "done" =>
        /\ Len(result) = 1
        /\ LET info == result[1]
           IN  /\ Len(info) = Len(all_base_customers) + Cardinality(DuplicatesProduced)
               /\ Len(info) = Len(produced)
               /\ Len(SinkRows) = Len(info)
               /\ \A i \in 1..Len(info) :
                      /\ DOMAIN info[i] = {"customer_id", "country", "source_id"}
                      /\ info[i].customer_id = SinkRows[i].customer_id
                      /\ info[i].source_id = SinkRows[i].source_id
                      /\ info[i].customer_id = produced[i].rec.customer_id
                      /\ info[i].source_id = produced[i].rec.source_id
                      /\ info[i].country = produced[i].rec.original_country
               /\ \A i \in 1..Len(all_base_customers) :
                      info[i].country = all_base_customers[i].original_country

\* a completed run with bases and duplicates of both kinds
C9_Witness ==
    /\ pc = "done"
    /\ Len(result) = 1
    /\ Len(result[1]) >= 4
    /\ ProducedAs("email_phone") # {}
    /\ ProducedAs("name") # {}

\* C10: once a load_customers call has raised, the run has failed: nothing is
\* returned, the failed batch is not in the sink, and no further step is taken
\* (no retry, no later batch generated or flushed).
C10_FlushFailureFatal ==
    /\ [](raised => /\ pc = "failed"
                    /\ result = <<>>
                    /\ Len(SinkRows) < Len(produced))
    /\ [][raised => UNCHANGED vars]_vars

\* the second duplicate batch failed to load
C10_Witness ==
    /\ raised
    /\ pc = "failed"
    /\ load_idx = 2
    /\ Len(sink) >= 2

\* C11: the shortfall warning is printed exactly when fewer duplicates are
\* realized than planned; a completed run has produced the base records and
\* the realized duplicates and nothing else, one duplicate per base record
\* when the count was clamped.
C11_ShortfallReported ==
    /\ pc \in {"plan", "base_batch", "base_gen", "base_uniq"} => ~warned
    /\ AfterClamp =>
           /\ warned <=> Len(all_base_customers) < num_duplicates
           /\ warned <=> num_duplicates_possible < num_duplicates
    /\ pc = "done" =>
           /\ warned <=> Cardinality(DuplicatesProduced) < num_duplicates
           /\ ProducedAs("base") = 1..Len(all_base_customers)
           /\ Len(produced) = Len(all_base_customers) + Cardinality(DuplicatesProduced)
           /\ warned => Cardinality(DuplicatesProduced) = Len(all_base_customers)

\* a run warned of a shortfall and completed with the clamped duplicates
C11_Witness ==
    /\ pc = "done"
    /\ warned
    /\ Cardinality(DuplicatesProduced) >= 1
    /\ Cardinality(DuplicatesProduced) < num_duplicates

\* C16: no row handed to the sink, and no row batched for it, carries the
\* internal origin country; the retained base records carry it and the
\* carry-forward records carry its value as "country".
C16_OriginCountryNotPersisted ==
    /\ LET rows == SinkRows
       IN  \A i \in 1..Len(rows) : "original_country" \notin DOMAIN rows[i]
    /\ \A i \in 1..Len(customers_batch) :
           "original_country" \notin DOMAIN customers_batch[i]
    /\ LET pending == Flatten(duplicate_batches) \o duplicate_batch
       IN  \A i \in 1..Len(pending) : "original_country" \notin DOMAIN pending[i]
    /\ \A i \in 1..Len(all_base_customers) :
           "original_country" \in DOMAIN all_base_customers[i]
    /\ \A i \in 1..Len(all_customer_info) :
           /\ "country" \in DOMAIN all_customer_info[i]
           /\ all_customer_info[i].country = produced[i].rec.original_country

\* base and duplicate batches have been loaded
C16_Witness ==
    /\ pc = "done"
    /\ Len(sink) >= 3
    /\ DuplicatesProduced # {}

\* =========================================================================
\* Functions run on their own.  Strings are sequences of one-character
\* strings; an optional field is <<>> for None and <<v>> for the value v.
\* The orchestrator's variables stay as a run that has not started leaves them.

None == <<>>

Some(v) == <<v>>

orch_vars == <<config_vars, plan_vars, base_vars, accepted_vars, all_base_customers,
               customer, partition_vars, dup_vars, end_vars>>

OrchestratorIdle ==
    /\ num_customers = 0
    /\ batch_size = 1
    /\ duplication_rate = <<1, 5>>
    /\ match_rate = <<4, 5>>
    /\ used_ids = {}
    /\ all_customer_info = <<>>
    /\ all_base_customers = <<>>
    /\ num_base_customers = 0
    /\ num_duplicates = 0
    /\ num_batches = 0
    /\ batch_idx = 0
    /\ current_batch_size = 0
    /\ customers_batch = <<>>
    /\ customer = NoCustomer
    /\ base = NoCustomer
    /\ num_duplicates_possible = 0
    /\ num_email_phone_matches = 0
    /\ num_name_matches = 0
    /\ email_phone_customers = <<>>
    /\ name_match_customers = <<>>
    /\ dup_idx = 0
    /\ duplicate_batches = <<>>
    /\ duplicate_batch = <<>>
    /\ load_idx = 0
    /\ sink = <<>>
    /\ warned = FALSE
    /\ result = <<>>
    /\ raised = FALSE
    /\ produced = <<>>

\* ------------------------------------------------------ add_typo, force_typo
Uppers == <<"A", "B", "C", "D", "E", "F", "G", "H", "I", "J", "K", "L", "M",
            "N", "O", "P", "Q", "R", "S", "T", "U", "V", "W", "X", "Y", "Z">>

Lowers == <<"a", "b", "c", "d", "e", "f", "g", "h", "i", "j", "k", "l", "m",
            "n", "o", "p", "q", "r", "s", "t", "u", "v", "w", "x", "y", "z">>

\* str.lower() on one character
Lower(c) ==
    IF \E i \in 1..Len(Uppers) : Uppers[i] = c
    THEN Lowers[CHOOSE i \in 1..Len(Uppers) : Uppers[i] = c]
    ELSE c

\* the adjacents table of add_typo
adjacents ==
    [c \in { Lowers[i] : i \in 1..Len(Lowers) } |->
        CASE c = "a" -> <<"s", "q">>
          [] c = "b" -> <<"v", "n", "g">>
          [] c = "c" -> <<"x", "v", "d">>
          [] c = "d" -> <<"s", "f", "e", "c">>
          [] c = "e" -> <<"w", "r", "d">>
          [] c = "f" -> <<"d", "g", "t">>
          [] c = "g" -> <<"f", "h", "y">>
          [] c = "h" -> <<"g", "j", "y">>
          [] c = "i" -> <<"u", "o", "k">>
          [] c = "j" -> <<"h", "k", "n">>
          [] c = "k" -> <<"j", "l", "i">>
          [] c = "l" -> <<"k", "o">>
          [] c = "m" -> <<"n">>
          [] c = "n" -> <<"m", "b">>
          [] c = "o" -> <<"i", "p", "k">>
          [] c = "p" -> <<"o">>
          [] c = "q" -> <<"w", "a">>
          [] c = "r" -> <<"e", "t">>
          [] c = "s" -> <<"a", "d", "z">>
          [] c = "t" -> <<"r", "g", "y">>
          [] c = "u" -> <<"y", "i">>
          [] c = "v" -> <<"c", "b">>
          [] c = "w" -> <<"q", "e", "s">>
          [] c = "x" -> <<"c", "z", "s">>
          [] c = "y" -> <<"t", "h", "u">>
          [] c = "z" -> <<"x", "s">>]

\* text with the characters at positions p and p + 1 exchanged
SwapAt(text, p) ==
    [i \in 1..Len(text) |->
        IF i = p THEN text[p + 1] ELSE IF i = p + 1 THEN text[p] ELSE text[i]]

\* text[:pos] + text[pos+1:]
RemoveAt(text, p) == SubSeq(text, 1, p - 1) \o SubSeq(text, p + 1, Len(text))

\* text[:pos+1] + text[pos] + text[pos+1:]
DoubleAt(text, p) ==
    SubSeq(text, 1, p) \o <<text[p]>> \o SubSeq(text, p + 1, Len(text))

\* text[:pos] + replacement + text[pos+1:]
ReplaceAt(text, p, c) ==
    SubSeq(text, 1, p - 1) \o <<c>> \o SubSeq(text, p + 1, Len(text))

typo_types == {"swap", "missing", "double", "adjacent"}

\* lines 104-144: what add_typo returns once a typo type is drawn, over the
\* positions and replacements it can draw
TypoOutcomes(text, typo_type) ==
    IF typo_type = "swap" /\ Len(text) >= 2
    THEN { SwapAt(text, p) : p \in 1..(Len(text) - 1) }
    ELSE IF typo_type = "missing" /\ Len(text) >= 3
    THEN { RemoveAt(text, p) : p \in 1..Len(text) }
    ELSE IF typo_type = "double" /\ Len(text) >= 1
    THEN { DoubleAt(text, p) : p \in 1..Len(text) }
    ELSE IF typo_type = "adjacent" /\ Len(text) >= 2
    THEN UNION { IF Lower(text[p]) \in DOMAIN adjacents
                 THEN { ReplaceAt(text, p, adjacents[Lower(text[p])][k]) :
                          k \in 1..Len(adjacents[Lower(text[p])]) }
                 ELSE {text} : p \in 1..Len(text) }
    ELSE {text}

\* add_typo without the length test of line 112: any character can go
AddTypoDropAny(text, skipped) ==
    IF skipped \/ text = <<>> THEN {text}
    ELSE { RemoveAt(text, p) : p \in 1..Len(text) }

\* add_typo(text, typo_probability): skipped is the outcome of
\* random.random() > typo_probability
add_typo(text, skipped) ==
    IF skipped THEN {text}
    ELSE IF text = <<>> THEN {text}
    ELSE UNION { TypoOutcomes(text, t) : t \in typo_types }

\* range(5) in force_typo
ForceTypoTries == 5

\* lines 317-325: the fallback of force_typo; two of the twenty-six letters
ForceTypoFallback(text) ==
    IF Len(text) >= 2
    THEN { SwapAt(text, p) : p \in 1..(Len(text) - 1) }
    ELSE { text \o <<c>> : c \in {"a", "z"} }

\* force_typo(text): every value it can return
RECURSIVE ForceTypoFrom(_, _)
ForceTypoFrom(text, tries) ==
    IF tries = 0 THEN ForceTypoFallback(text)
    ELSE { r \in add_typo(text, FALSE) : r # text }
             \cup (IF text \in add_typo(text, FALSE)
                   THEN ForceTypoFrom(text, tries - 1) ELSE {})

force_typo(text) == ForceTypoFrom(text, ForceTypoTries)

\* the texts the typo functions are run on
Texts ==
    { <<>>, <<"a">>, <<"a", "a">>, <<"L", "i">>, <<"A", "n", "n", "a">>,
      <<"1", "1">>, <<"O", "-", "1">>, <<"b", "o", "b">> }

InitTypo ==
    /\ OrchestratorIdle
    /\ pc \in {"add_typo", "force_typo"}
    /\ call \in { [text |-> t] : t \in Texts }
    /\ local = [tries |-> 0]
    /\ ret = None

\* lines 96-144: one call of add_typo at the default probability
AddTypo ==
    /\ pc = "add_typo"
    /\ \E skipped \in BOOLEAN : \E r \in add_typo(call.text, skipped) : ret' = Some(r)
    /\ pc' = "returned_add_typo"
    /\ UNCHANGED <<orch_vars, call, local>>

\* lines 312-315: one turn of the loop of force_typo
TryTypo ==
    /\ pc = "force_typo"
    /\ local.tries < ForceTypoTries
    /\ \E typo_text \in add_typo(call.text, FALSE) :
           IF typo_text # call.text
           THEN /\ ret' = Some(typo_text)
                /\ pc' = "returned_force_typo"
                /\ local' = local
           ELSE /\ local' = [local EXCEPT !.tries = local.tries + 1]
                /\ UNCHANGED <<pc, ret>>
    /\ UNCHANGED <<orch_vars, call>>

\* lines 317-325: no try gave another string
FallbackTypo ==
    /\ pc = "force_typo"
    /\ local.tries >= ForceTypoTries
    /\ \E r \in ForceTypoFallback(call.text) : ret' = Some(r)
    /\ pc' = "returned_force_typo"
    /\ UNCHANGED <<orch_vars, call, local>>

NextTypo ==
    \/ AddTypo
    \/ TryTypo
    \/ FallbackTypo

SpecTypo == InitTypo /\ [][NextTypo]_vars

\* C14 (as claimed): force_typo returns a string that differs from its
\* non-empty argument, whatever operations and positions are drawn.
C14_ForceTypoDiffers ==
    (pc = "returned_force_typo" /\ call.text # <<>>) => ret # Some(call.text)

\* ------------------------------------------------------------ strings, dates
Digits == <<"0", "1", "2", "3", "4", "5", "6", "7", "8", "9">>

IsDigit(c) == \E i \in 1..Len(Digits) : Digits[i] = c

\* str.isalnum() on one character
IsAlnum(c) ==
    \/ IsDigit(c)
    \/ \E i \in 1..Len(Lowers) : Lowers[i] = c \/ Uppers[i] = c

\* sep in text
Contains(text, sep) == \E i \in 1..Len(text) : text[i] = sep

\* text.split(sep)
RECURSIVE Split(_, _)
Split(text, sep) ==
    IF ~Contains(text, sep) THEN <<text>>
    ELSE LET i == CHOOSE k \in 1..Len(text) :
                      text[k] = sep /\ \A j \in 1..(k - 1) : text[j] # sep
         IN  <<SubSeq(text, 1, i - 1)>> \o Split(SubSeq(text, i + 1, Len(text)), sep)

\* int(text) for a string of digits
RECURSIVE ToInt(_)
ToInt(text) ==
    IF text = <<>> THEN 0
    ELSE 10 * ToInt(SubSeq(text, 1, Len(text) - 1))
             + (CHOOSE d \in 0..9 : Digits[d + 1] = text[Len(text)])

\* int(text) raises ValueError on anything but digits
IsNumber(text) == text # <<>> /\ \A i \in 1..Len(text) : IsDigit(text[i])

\* %m, %d: two digits
TwoDigits(n) == <<Digits[((n \div 10) % 10) + 1], Digits[(n % 10) + 1]>>

\* %Y: four digits
FourDigits(n) == TwoDigits(n \div 100) \o TwoDigits(n % 100)

\* keys of DOB_FORMATS
DOB_FORMATS == {"%Y-%m-%d", "%d/%m/%Y", "%m/%d/%Y", "%Y/%m/%d", "%d-%m-%Y"}

\* date_obj.strftime(selected_format)
Strftime(fmt, year, month, day) ==
    CASE fmt = "%Y-%m-%d" ->
             FourDigits(year) \o <<"-">> \o TwoDigits(month) \o <<"-">> \o TwoDigits(day)
      [] fmt = "%d/%m/%Y" ->
             TwoDigits(day) \o <<"/">> \o TwoDigits(month) \o <<"/">> \o FourDigits(year)
      [] fmt = "%m/%d/%Y" ->
             TwoDigits(month) \o <<"/">> \o TwoDigits(day) \o <<"/">> \o FourDigits(year)
      [] fmt = "%Y/%m/%d" ->
             FourDigits(year) \o <<"/">> \o TwoDigits(month) \o <<"/">> \o TwoDigits(day)
      [] fmt = "%d-%m-%Y" ->
             TwoDigits(day) \o <<"-">> \o TwoDigits(month) \o <<"-">> \o FourDigits(year)

DaysInMonth(year, month) ==
    IF month \in {4, 6, 9, 11} THEN 30
    ELSE IF month # 2 THEN 31
    ELSE IF year % 4 = 0 /\ (year % 100 # 0 \/ year % 400 = 0) THEN 29
    ELSE 28

\* datetime(year, month, day) does not raise
ValidDate(year, month, day) ==
    /\ year \in 1..9999
    /\ month \in 1..12
    /\ day \in 1..DaysInMonth(year, month)

\* ------------------------------------------------------------ generate_email
\* name.lower().replace(" ", "").replace("-", "")
NotSpaceOrHyphen(c) == c \notin {" ", "-"}

CleanName(text) == SelectSeq([i \in 1..Len(text) |-> Lower(text[i])], NotSpaceOrHyphen)

\* c.isalnum() or c in ['.', '_']
UsernameChar(c) == IsAlnum(c) \/ c \in {".", "_"}

\* lines 214-225: the year string taken from a non-empty date_of_birth; None
\* when there is no separator, and when parts[2] does not exist (the
\* IndexError is caught at line 233)
ExtractYearLast(date_of_birth) ==
    IF Contains(date_of_birth, "-")
    THEN LET parts == Split(date_of_birth, "-") IN Some(parts[Len(parts)])
    ELSE None

ExtractYear(date_of_birth) ==
    IF Contains(date_of_birth, "-")
    THEN Some(Split(date_of_birth, "-")[1])
    ELSE IF Contains(date_of_birth, "/")
    THEN LET parts == Split(date_of_birth, "/")
         IN  IF Len(parts[1]) = 4 THEN Some(parts[1])
             ELSE IF Len(parts) >= 3 THEN Some(parts[3])
             ELSE None
    ELSE None

\* str(random.randint(0, 99)).zfill(2): three of the hundred values
RandomTwoDigits == {<<"0", "7">>, <<"1", "9">>, <<"8", "5">>}

\* str(random.randint(100, 999)): two of the values
RandomThreeDigits == {<<"1", "0", "0">>, <<"9", "9", "9">>}

\* lines 212-238: the values year_suffix can have; date_of_birth is optional
YearSuffixes(date_of_birth) ==
    LET year == IF date_of_birth = None \/ date_of_birth[1] = <<>> THEN None
                ELSE ExtractYear(date_of_birth[1])
        from_year == IF year # None /\ Len(year[1]) = 4
                     THEN {SubSeq(year[1], 3, 4), year[1]}
                     ELSE {<<>>}
    IN  UNION { IF y = <<>> THEN {<<>>} \cup RandomTwoDigits ELSE {y} : y \in from_year }

\* lines 241-260: the username of a format type; name and surname are cleaned.
\* name[0] and surname[0] raise IndexError on an empty string.
UsernameRaises(format_type, name, surname) ==
    \/ format_type \in {1, 4} /\ name = <<>>
    \/ format_type = 2 /\ surname = <<>>

Username(format_type, name, surname, year_suffix) ==
    CASE format_type = 0 -> name \o <<".">> \o surname
      [] format_type = 1 -> <<name[1]>> \o surname
      [] format_type = 2 -> name \o <<surname[1]>>
      [] format_type = 3 -> surname \o <<".">> \o name
      [] format_type = 4 -> <<name[1]>> \o surname \o year_suffix
      [] format_type = 5 -> name \o year_suffix

\* EMAIL_DOMAINS as configured, cut to two domains, weights in thousandths
EMAIL_DOMAINS == [d \in {"gmail.com", "bluewin.ch"} |-> IF d = "gmail.com" THEN 250 ELSE 2]

RECURSIVE SumWeights(_, _)
SumWeights(table, labels) ==
    IF labels = {} THEN 0
    ELSE LET l == CHOOSE x \in labels : TRUE
         IN  table[l] + SumWeights(table, labels \ {l})

\* domain.startswith("example")
IsExampleDomain(d) == d \in {"example.com", "example.org", "example.net"}

\* lines 191-204: the domains the draw can give; {} when it raises (the
\* table is empty, or its weights sum to zero)
DomainDraws(table) ==
    LET valid == { d \in DOMAIN table : ~IsExampleDomain(d) }
        filtered == IF valid # {} THEN valid ELSE DOMAIN table
    IN  IF filtered = {} \/ SumWeights(table, filtered) = 0 THEN {}
        ELSE { d \in filtered : table[d] > 0 }

\* faker_instance.email(): addresses of the provider, one on a placeholder domain
ProviderEmails ==
    { [username |-> <<"j", "d", "o", "e", "4", "2">>, domain |-> "example.org"],
      [username |-> <<"m", "r", "o", "s", "s", "i">>, domain |-> "libero.it"] }

\* lines 207-269: the name based addresses, with the year_suffix of each
NameBasedRuns(name, surname, date_of_birth, domain) ==
    LET cname == CleanName(name)
        csurname == CleanName(surname)
    IN  UNION { UNION {
            IF UsernameRaises(format_type, cname, csurname)
            THEN { [kind |-> "raise", year_suffix |-> year_suffix,
                    username |-> <<>>, domain |-> domain] }
            ELSE LET username == Username(format_type, cname, csurname, year_suffix)
                     padded == IF Len(username) < 5 /\ year_suffix = <<>>
                               THEN { username \o n : n \in RandomThreeDigits }
                               ELSE {username}
                 IN  { [kind |-> "name", year_suffix |-> year_suffix,
                        username |-> SelectSeq(u, UsernameChar), domain |-> domain] :
                         u \in padded }
            : format_type \in 0..5 } : year_suffix \in YearSuffixes(date_of_birth) }

\* str(random.randint(1000, 9999)): one of the values
RandomFourDigits == {<<"4", "7", "1", "1">>}

\* lines 271-290: the addresses of the provider branch; the provider can raise
ProviderRuns(name, surname, domain) ==
    LET clean_names == IF name # <<>>
                       THEN {SelectSeq([i \in 1..Len(name) |-> Lower(name[i])], IsAlnum)}
                       ELSE {<<"u", "s", "e", "r">>}
        clean_surnames == IF surname # <<>>
                          THEN {SelectSeq([i \in 1..Len(surname) |-> Lower(surname[i])],
                                          IsAlnum)}
                          ELSE RandomFourDigits
    IN  { [kind |-> "provider", year_suffix |-> <<>>, username |-> e.username,
           domain |-> e.domain] : e \in { x \in ProviderEmails : ~IsExampleDomain(x.domain) } }
        \cup { [kind |-> "rewritten", year_suffix |-> <<>>, username |-> e.username,
                domain |-> domain] : e \in { x \in ProviderEmails : IsExampleDomain(x.domain) } }
        \cup { [kind |-> "fallback", year_suffix |-> <<>>,
                username |-> n \o <<".">> \o sn, domain |-> "gmail.com"] :
                 n \in clean_names, sn \in clean_surnames }

\* generate_email(name, surname, date_of_birth, country) under a domain table:
\* every run, with the branch taken (kind) and the local year_suffix
GenerateEmailRuns(name, surname, date_of_birth, country, table) ==
    IF DomainDraws(table) = {}
    THEN { [kind |-> "raise", year_suffix |-> <<>>, username |-> <<>>, domain |-> ""] }
    ELSE UNION { (IF name # <<>> /\ surname # <<>>
                  THEN NameBasedRuns(name, surname, date_of_birth, domain) ELSE {})
                 \cup ProviderRuns(name, surname, domain) : domain \in DomainDraws(table) }

\* the address a run returns
EmailOf(run) == [username |-> run.username, domain |-> run.domain]

\* the addresses generate_email can return
generate_email(name, surname, date_of_birth, country, table) ==
    { EmailOf(run) : run \in { x \in GenerateEmailRuns(name, surname, date_of_birth,
                                                       country, table) :
                                 x.kind # "raise" } }

\* ------------------------------------------------- generate_email on its own
Chars(word) ==
    CASE word = "" -> <<>>
      [] word = "Li" -> <<"L", "i">>
      [] word = "Anna" -> <<"A", "n", "n", "a">>
      [] word = "Bo" -> <<"B", "o">>
      [] word = "De-Luca" -> <<"D", "e", "-", "L", "u", "c", "a">>
      [] word = "a" -> <<"a">>

\* birth dates the provider can give: <<year, month, day>>
BirthDates == {<<1985, 3, 4>>, <<1980, 12, 25>>}

\* format_date_of_birth under the configured DOB_FORMATS
FormattedDobs == { Strftime(fmt, d[1], d[2], d[3]) : fmt \in DOB_FORMATS, d \in BirthDates }

\* domain tables: the configured one, an empty one, one whose weights are zero
EmailDomainTables == {EMAIL_DOMAINS, <<>>, [d \in {"gmail.com"} |-> 0]}

InitEmail ==
    /\ OrchestratorIdle
    /\ pc = "generate_email"
    /\ call \in { [name |-> Chars(n), surname |-> Chars(sn), date_of_birth |-> dob,
                   country |-> "Italy", table |-> t] :
                    n \in {"Li", "Anna"}, sn \in {"Bo", "De-Luca", ""},
                    dob \in {None, Some(<<>>)} \cup { Some(x) : x \in FormattedDobs },
                    t \in EmailDomainTables }
    /\ local = <<>>
    /\ ret = None

\* one call of generate_email: the run taken is kept in local
GenerateEmail ==
    /\ pc = "generate_email"
    /\ \E run \in GenerateEmailRuns(call.name, call.surname, call.date_of_birth,
                                    call.country, call.table) :
          /\ local' = run
          /\ IF run.kind = "raise"
             THEN pc' = "raised_generate_email" /\ ret' = None
             ELSE pc' = "returned_generate_email" /\ ret' = Some(EmailOf(run))
    /\ UNCHANGED <<orch_vars, call>>

NextEmail == GenerateEmail

SpecEmail == InitEmail /\ [][NextEmail]_vars

\* the date of birth of the call is date d written in format fmt
DobWritten(fmt, d) == call.date_of_birth = Some(Strftime(fmt, d[1], d[2], d[3]))

\* the digits of the returned username: the names given have none
UsernameDigits == SelectSeq(ret[1].username, IsDigit)

\* a name based address was returned for a date of birth written in fmt, and
\* its digits are none, the last two of the birth year, or the whole of it
YearSuffixFromBirthYear(fmt) ==
    \A d \in BirthDates :
        (pc = "returned_generate_email" /\ local.kind = "name" /\ DobWritten(fmt, d))
            => /\ local.year_suffix \in {TwoDigits(d[1] % 100), FourDigits(d[1])}
               /\ UsernameDigits \in {<<>>, TwoDigits(d[1] % 100), FourDigits(d[1])}

\* C17: a name based address made from a YYYY-MM-DD date of birth carries, as
\* its year suffix, the last two digits or all four digits of the birth year
C17_YearSuffixFromIsoDob == YearSuffixFromBirthYear("%Y-%m-%d")

C17_Witness ==
    /\ pc = "returned_generate_email"
    /\ local.kind = "name"
    /\ DobWritten("%Y-%m-%d", <<1985, 3, 4>>)
    /\ UsernameDigits = <<"8", "5">>

\* C18 (as claimed): in each of the five configured formats the year suffix
\* is taken from the birth year, never from random digits
C18_YearSuffixFromAnyFormat == \A fmt \in DOB_FORMATS : YearSuffixFromBirthYear(fmt)

\* --------------------------------------- create_duplicate_customer in full
\* ISO_COUNTRY_CODES and NATIVE_COUNTRY_NAMES
ISO_COUNTRY_CODES == [c \in COUNTRY_WEIGHTS |-> IF c = "Italy" THEN "IT" ELSE "JP"]

NATIVE_COUNTRY_NAMES == [c \in COUNTRY_WEIGHTS |-> IF c = "Italy" THEN "Italia" ELSE "Nihon"]

\* lines 394-406 and 498-508: the three ways a country is written
CountryFormats(original_country) ==
    {NATIVE_COUNTRY_NAMES[original_country], ISO_COUNTRY_CODES[original_country],
     original_country}

\* generate_phone_number(country): two of the numbers it can give
PhoneNumbers(country) ==
    IF country = "Italy" THEN {"+39 06 5550101", "(06) 5550101"}
    ELSE {"+81 3 5550101", "(03) 5550101"}

\* lines 460-479: how the date of birth is taken apart. kind is "none" when
\* dob_parts stays None, "raise" when an unpacking, an index or a read of an
\* unassigned local raises, "parts" otherwise; guessed marks line 473-475
DobRaise == [kind |-> "raise", year |-> <<>>, month |-> <<>>, day |-> <<>>, guessed |-> FALSE]

DobNone == [kind |-> "none", year |-> <<>>, month |-> <<>>, day |-> <<>>, guessed |-> FALSE]

DobParts(year, month, day, guessed) ==
    [kind |-> "parts", year |-> year, month |-> month, day |-> day, guessed |-> guessed]

GuessMonthFirst(parts) == DobParts(parts[3], parts[1], parts[2], TRUE)

GuessDayFirst(parts) == DobParts(parts[3], parts[2], parts[1], TRUE)

ParseDob(date_of_birth) ==
    IF Contains(date_of_birth, "-")
    THEN LET parts == Split(date_of_birth, "-")
         IN  IF Len(parts) # 3 THEN DobRaise
             ELSE IF Len(parts[1]) = 4 THEN DobParts(parts[1], parts[2], parts[3], FALSE)
             ELSE DobParts(parts[3], parts[2], parts[1], FALSE)
    ELSE IF Contains(date_of_birth, "/")
    THEN LET parts == Split(date_of_birth, "/")
         IN  IF Len(parts[1]) = 4
             THEN IF Len(parts) # 3 THEN DobRaise
                  ELSE DobParts(parts[1], parts[2], parts[3], FALSE)
             ELSE IF Len(parts) < 3 THEN DobRaise
             ELSE IF Len(parts[3]) = 4 /\ Len(parts[1]) <= 2
             THEN IF ~IsNumber(parts[1]) THEN DobRaise
                  ELSE IF ToInt(parts[1]) <= 12
                  THEN IF ~IsNumber(parts[2]) \/ Len(parts) # 3 THEN DobRaise
                       ELSE IF ToInt(parts[2]) <= 12 THEN GuessDayFirst(parts)
                       ELSE DobParts(parts[3], parts[1], parts[2], FALSE)
                  ELSE IF Len(parts) # 3 THEN DobRaise
                  ELSE DobParts(parts[3], parts[2], parts[1], FALSE)
             ELSE DobRaise
    ELSE DobNone

\* lines 481-491: the dates of birth that can be written from the parts;
\* the same date of birth when int() or datetime() raises
RewrittenDobs(date_of_birth, p) ==
    IF /\ IsNumber(p.year) /\ IsNumber(p.month) /\ IsNumber(p.day)
       /\ ValidDate(ToInt(p.year), ToInt(p.month), ToInt(p.day))
    THEN { Strftime(fmt, ToInt(p.year), ToInt(p.month), ToInt(p.day)) : fmt \in DOB_FORMATS }
    ELSE {date_of_birth}

\* a fallback that keeps the country the failed attempt had written
FallbackDuplicatePartial(base_customer) ==
    [base_customer EXCEPT !.customer_id = 0, !.source_id = FlipSource(@),
                          !.country = IF @ = None THEN None
                                      ELSE Some(NATIVE_COUNTRY_NAMES[
                                                    base_customer.original_country])]

\* lines 548-554: the duplicate of the except branch, made from a new copy
\* of base_customer
FallbackDuplicate(base_customer) ==
    [base_customer EXCEPT !.customer_id = 0, !.source_id = FlipSource(@)]

\* the name branch without the test of line 523: an email is made even when
\* the source has none
NameRunsEmailAlways(base_customer, table) ==
    { [path |-> "name", dob |-> "kept", add_name_typo |-> FALSE,
       duplicate |-> [base_customer EXCEPT !.customer_id = 0,
                                           !.source_id = FlipSource(@),
                                           !.email = Some(e)]] :
        e \in generate_email(base_customer.name, base_customer.surname,
                             base_customer.date_of_birth, base_customer.original_country,
                             table) }

\* lines 510-544: the runs of the name branch
NameRuns(base_customer, table) ==
    LET flipped == [base_customer EXCEPT !.customer_id = 0,
                                         !.source_id = FlipSource(@)]
        names == {[add_name_typo |-> FALSE, name |-> base_customer.name,
                   surname |-> base_customer.surname]}
                 \cup { [add_name_typo |-> TRUE, name |-> n, surname |-> base_customer.surname] :
                          n \in force_typo(base_customer.name) }
                 \cup { [add_name_typo |-> TRUE, name |-> base_customer.name, surname |-> sn] :
                          sn \in force_typo(base_customer.surname) }
        emails(n) == {base_customer.email}
                     \cup IF base_customer.email = None THEN {}
                          ELSE { Some(e) : e \in generate_email(n.name, n.surname,
                                                                base_customer.date_of_birth,
                                                                base_customer.original_country,
                                                                table) }
        phones == {base_customer.mobile_phone_number}
                  \cup IF base_customer.mobile_phone_number = None THEN {}
                       ELSE { Some(ph) : ph \in PhoneNumbers(base_customer.original_country) }
    IN  UNION { { [path |-> "name", dob |-> "kept", add_name_typo |-> n.add_name_typo,
                   duplicate |-> [flipped EXCEPT !.name = n.name, !.surname = n.surname,
                                                 !.email = e,
                                                 !.mobile_phone_number = ph]] :
                    e \in emails(n), ph \in phones } : n \in names }

\* lines 445-508: the runs of the email_phone branch. dob tells what was done
\* with the date of birth: "kept" (not varied, or no parts), "failed" (the
\* inner try raised), "rewritten", "guessed" (rewritten after line 473-475)
EmailPhoneRunsRegenerated(base_customer) == NameRuns(base_customer, EMAIL_DOMAINS)

EmailPhoneRuns(base_customer) ==
    LET flipped == [base_customer EXCEPT !.customer_id = 0,
                                         !.source_id = FlipSource(@)]
        dob == base_customer.date_of_birth
        p == IF dob = None \/ dob[1] = <<>> THEN DobNone ELSE ParseDob(dob[1])
        dobs == {[dob |-> "kept", date_of_birth |-> dob]}
                \cup IF p.kind # "parts" THEN {}
                     ELSE { [dob |-> IF RewrittenDobs(dob[1], p) = {dob[1]} THEN "failed"
                                     ELSE IF p.guessed THEN "guessed" ELSE "rewritten",
                             date_of_birth |-> Some(d)] : d \in RewrittenDobs(dob[1], p) }
        countries == {base_customer.country}
                     \cup IF base_customer.country = None THEN {}
                          ELSE { Some(c) : c \in CountryFormats(base_customer.original_country) }
    IN  { [path |-> "email_phone", dob |-> d.dob, add_name_typo |-> FALSE,
           duplicate |-> [flipped EXCEPT !.date_of_birth = d.date_of_birth,
                                         !.country = c]] : d \in dobs, c \in countries }
        \cup IF p.kind = "raise"
             THEN {[path |-> "fallback", dob |-> "kept", add_name_typo |-> FALSE,
                    duplicate |-> FallbackDuplicate(base_customer)]}
             ELSE {}

\* base records: what generate_customer returns (every format of DOB_FORMATS,
\* fields absent), and dates of birth no format of DOB_FORMATS gives
MalformedDobs ==
    { <<"1", "2", "/", "2", "5", "/", "8", "5">>,
      <<"1", "9", "8", "5", "-", "0", "3">>,
      <<"3", "1", "/", "0", "2", "/", "1", "9", "8", "5">>,
      <<"1", "9", "8", "5", "0", "3", "0", "4">> }

BaseDobs == {None} \cup { Some(x) : x \in FormattedDobs \cup MalformedDobs }

BaseEmail == [username |-> <<"a", "n", "n", "a", ".", "b", "o">>, domain |-> "gmail.com"]

ContactBases ==
    { [customer_id |-> 1, country |-> c, name |-> Chars("Anna"), surname |-> Chars("Bo"),
       date_of_birth |-> dob, email |-> e, mobile_phone_number |-> ph, source_id |-> src,
       original_country |-> "Italy"] :
        c \in {None, Some("IT")}, dob \in BaseDobs, e \in {None, Some(BaseEmail)},
        ph \in {None, Some("+39 06 5550101")}, src \in CUSTOMER_SOURCES }

NameBases ==
    { [customer_id |-> 1, country |-> Some("Italy"), name |-> Chars(n), surname |-> Chars(sn),
       date_of_birth |-> dob, email |-> e, mobile_phone_number |-> ph, source_id |-> src,
       original_country |-> "Italy"] :
        n \in {"Anna", "a"}, sn \in {"Bo", "a"},
        dob \in {None, Some(Strftime("%d-%m-%Y", 1985, 3, 4))},
        e \in {None, Some(BaseEmail)}, ph \in {None, Some("+39 06 5550101")},
        src \in CUSTOMER_SOURCES }

InitDup ==
    /\ OrchestratorIdle
    /\ pc = "create_duplicate_customer"
    /\ call \in { [base_customer |-> b, match_type |-> "email_phone"] : b \in ContactBases }
                \cup { [base_customer |-> b, match_type |-> "name"] : b \in NameBases }
    /\ local = <<>>
    /\ ret = None

\* create_duplicate_customer(base_customer, 'email_phone')
DuplicateByContact ==
    /\ pc = "create_duplicate_customer"
    /\ call.match_type = "email_phone"
    /\ \E run \in EmailPhoneRuns(call.base_customer) :
          /\ local' = [path |-> run.path, dob |-> run.dob,
                       add_name_typo |-> run.add_name_typo]
          /\ ret' = Some(run.duplicate)
    /\ pc' = "returned_create_duplicate_customer"
    /\ UNCHANGED <<orch_vars, call>>

\* create_duplicate_customer(base_customer, 'name')
DuplicateByName ==
    /\ pc = "create_duplicate_customer"
    /\ call.match_type = "name"
    /\ \E run \in NameRuns(call.base_customer, EMAIL_DOMAINS) :
          /\ local' = [path |-> run.path, dob |-> run.dob,
                       add_name_typo |-> run.add_name_typo]
          /\ ret' = Some(run.duplicate)
    /\ pc' = "returned_create_duplicate_customer"
    /\ UNCHANGED <<orch_vars, call>>

NextDup == DuplicateByContact \/ DuplicateByName

SpecDup == InitDup /\ [][NextDup]_vars

DuplicateReturned == pc = "returned_create_duplicate_customer"

BaseCustomer == call.base_customer

\* C12: an exact-contact duplicate has the name, surname, email and mobile
\* phone number of its source, on the fallback path as on the normal one
C12_ContactFieldsCopied ==
    (DuplicateReturned /\ call.match_type = "email_phone")
        => /\ local.path \in {"email_phone", "fallback"}
           /\ ret[1].name = BaseCustomer.name
           /\ ret[1].surname = BaseCustomer.surname
           /\ ret[1].email = BaseCustomer.email
           /\ ret[1].mobile_phone_number = BaseCustomer.mobile_phone_number

C12_Witness ==
    /\ DuplicateReturned
    /\ call.match_type = "email_phone"
    /\ local.path = "fallback"
    /\ ret[1].email # None
    /\ ret[1].mobile_phone_number # None

\* C13 (as claimed): a fuzzy-name duplicate differs from its source in at most
\* one of name and surname; exactly one differs when a typo was forced, and
\* none when no typo was forced
C13_OneNameFieldDiffers ==
    (DuplicateReturned /\ call.match_type = "name")
        => LET name_differs == ret[1].name # BaseCustomer.name
               surname_differs == ret[1].surname # BaseCustomer.surname
           IN  /\ ~(name_differs /\ surname_differs)
               /\ local.add_name_typo => (name_differs \/ surname_differs)
               /\ ~local.add_name_typo => (~name_differs /\ ~surname_differs)

\* C15: every duplicate, of either strategy and of the fallback path, has a
\* source_id that is a configured channel and is not the source_id of its source
C15_SourceFlipped ==
    DuplicateReturned
        => /\ ret[1].source_id \in CUSTOMER_SOURCES
           /\ ret[1].source_id # BaseCustomer.source_id

C15_Witness ==
    /\ DuplicateReturned
    /\ local.path = "fallback"
    /\ BaseCustomer.source_id = 2
    /\ ret[1].source_id = 1

\* lines 471-472 as the claim words it: slash separated, a trailing four digit
\* year, both leading numbers at most 12
AmbiguousDob(date_of_birth) ==
    /\ Contains(date_of_birth, "/")
    /\ LET parts == Split(date_of_birth, "/")
       IN  /\ Len(parts) = 3
           /\ Len(parts[3]) = 4
           /\ Len(parts[1]) <= 2
           /\ IsNumber(parts[1]) /\ ToInt(parts[1]) <= 12
           /\ IsNumber(parts[2]) /\ ToInt(parts[2]) <= 12

ExactContactWithDob ==
    /\ DuplicateReturned
    /\ call.match_type = "email_phone"
    /\ BaseCustomer.date_of_birth # None

WeightedDraws(table) ==
    IF DOMAIN table = {} \/ SumWeights(table, DOMAIN table) = 0 THEN {}
    ELSE { x \in DOMAIN table : table[x] > 0 }

\* the tables of config.py, weights in hundredths
SourceTable == [s \in CUSTOMER_SOURCES |-> IF s = 1 THEN 40 ELSE 60]

CountryTable == [c \in COUNTRY_WEIGHTS |-> IF c = "Italy" THEN 10 ELSE 23]

DobFormatTable ==
    [f \in DOB_FORMATS |-> CASE f = "%Y-%m-%d" -> 50
                             [] f = "%d/%m/%Y" -> 25
                             [] f = "%m/%d/%Y" -> 15
                             [] OTHER -> 5]

\* a table as configured, emptied, and with every weight zero
Malformations(table) == {table, <<>>, [x \in DOMAIN table |-> 0]}

\* the four tables of a run: as configured, or one of them malformed
TableSettings ==
    LET configured == [sources |-> SourceTable, countries |-> CountryTable,
                       dob_formats |-> DobFormatTable, email_domains |-> EMAIL_DOMAINS]
    IN  { [configured EXCEPT !.sources = t] : t \in Malformations(SourceTable) }
        \cup { [configured EXCEPT !.countries = t] : t \in Malformations(CountryTable) }
        \cup { [configured EXCEPT !.dob_formats = t] : t \in Malformations(DobFormatTable) }
        \cup { [configured EXCEPT !.email_domains = t] : t \in Malformations(EMAIL_DOMAINS) }

WellFormed(table) == WeightedDraws(table) # {}

\* line 368-371: one of the dates the fallback can write
FallbackDob == <<"1", "9", "7", "5", "-", "0", "6", "-", "1", "5">>

\* lines 358-371: date_of_birth and whether it is the fallback's, written
\* when the provider's date_of_birth raises or the format draw raises
DobsOfCustomer(date, dob_formats, provider_raises) ==
    {[date_of_birth |-> None, fallback |-> FALSE]}
    \cup IF ~provider_raises /\ WellFormed(dob_formats)
         THEN { [date_of_birth |-> Some(Strftime(f, date[1], date[2], date[3])),
                 fallback |-> FALSE] : f \in WeightedDraws(dob_formats) }
         ELSE {[date_of_birth |-> Some(FallbackDob), fallback |-> TRUE]}

\* lines 374-382: email and whether it is the fallback's
EmailsOfCustomer(name, surname, date_of_birth, country, email_domains) ==
    LET runs == GenerateEmailRuns(name, surname, date_of_birth, country, email_domains)
    IN  {[email |-> None, fallback |-> FALSE]}
        \cup { [email |-> Some(EmailOf(run)), fallback |-> FALSE] :
                 run \in { x \in runs : x.kind # "raise" } }
        \cup IF \E run \in runs : run.kind = "raise"
             THEN {[email |-> Some([username |->
                                      SelectSeq([i \in 1..Len(name) |-> Lower(name[i])],
                                                IsAlnum)
                                      \o <<".">>
                                      \o SelectSeq([i \in 1..Len(surname) |->
                                                      Lower(surname[i])], IsAlnum),
                                    domain |-> "example.net"]),
                    fallback |-> TRUE]}
             ELSE {}

FallbackCustomerRecordNameless(source_id, country) ==
    [customer_id |-> 1, country |-> Some(country), name |-> <<>>, surname |-> <<>>,
     date_of_birth |-> None, email |-> None, mobile_phone_number |-> None,
     source_id |-> source_id, original_country |-> country]

\* lines 408-418: the record of the outer fallback; one of the random numbers
FallbackCustomerRecord(source_id, country) ==
    [customer_id |-> 1, country |-> Some(country),
     name |-> <<"U", "s", "e", "r", "_", "4", "7", "1", "1">>,
     surname |-> <<"S", "u", "r", "n", "a", "m", "e", "_", "4", "7", "1", "1">>,
     date_of_birth |-> None,
     email |-> Some([username |-> <<"u", "s", "e", "r", "_", "4", "7", "1", "1", ".",
                                    "s", "u", "r", "n", "a", "m", "e", "_", "4", "7",
                                    "1", "1">>,
                     domain |-> "example.net"]),
     mobile_phone_number |-> Some("+39123456789"),
     source_id |-> source_id, original_country |-> country]

InitGen ==
    /\ OrchestratorIdle
    /\ pc = "generate_customer"
    /\ call \in { [tables |-> t, first_name |-> Chars("Li"), last_name |-> Chars("Bo"),
                   date |-> <<1985, 3, 4>>, provider_fails |-> f] :
                    t \in TableSettings, f \in {"none", "names"} }
                \cup { [tables |-> t, first_name |-> Chars("Li"), last_name |-> Chars("Bo"),
                        date |-> <<1985, 3, 4>>, provider_fails |-> f] :
                         t \in { x \in TableSettings :
                                   WellFormed(x.dob_formats) /\ WellFormed(x.email_domains) },
                         f \in {"date_of_birth", "phone_number"} }
    /\ local = <<>>
    /\ ret = None

\* lines 331-341: the draws made before the try; a draw that raises ends the call
DrawSourceAndCountry ==
    /\ pc = "generate_customer"
    /\ IF WellFormed(call.tables.sources) /\ WellFormed(call.tables.countries)
       THEN /\ \E s \in WeightedDraws(call.tables.sources),
                  c \in WeightedDraws(call.tables.countries) :
                    local' = [source_id |-> s, country |-> c,
                              dob_fallback |-> FALSE, email_fallback |-> FALSE]
            /\ pc' = "generate_customer_try"
       ELSE /\ pc' = "raised_generate_customer"
            /\ local' = local
    /\ UNCHANGED <<orch_vars, call, ret>>

\* lines 344-406 and 420-430: the try block runs to its end; a provider
\* failure on the date of birth or on the phone number is caught where it
\* happens (lines 366 and 179) and only that field gets a fallback value
FillCustomer ==
    /\ pc = "generate_customer_try"
    /\ call.provider_fails # "names"
    /\ \E name \in add_typo(call.first_name, TRUE) \cup add_typo(call.first_name, FALSE),
          surname \in add_typo(call.last_name, TRUE) \cup add_typo(call.last_name, FALSE),
          dob \in DobsOfCustomer(call.date, call.tables.dob_formats,
                                 call.provider_fails = "date_of_birth"),
          phone \in {None} \cup { Some(ph) :
                                    ph \in IF call.provider_fails = "phone_number"
                                           THEN {"+39 123-456-7890"}
                                           ELSE PhoneNumbers(local.country) },
          country_value \in {None} \cup { Some(c) : c \in CountryFormats(local.country) } :
          \E e \in EmailsOfCustomer(name, surname, dob.date_of_birth, local.country,
                                    call.tables.email_domains) :
             /\ ret' = Some([customer_id |-> 1, country |-> country_value, name |-> name,
                             surname |-> surname, date_of_birth |-> dob.date_of_birth,
                             email |-> e.email, mobile_phone_number |-> phone,
                             source_id |-> local.source_id,
                             original_country |-> local.country])
             /\ local' = [local EXCEPT !.dob_fallback = dob.fallback,
                                       !.email_fallback = e.fallback]
    /\ pc' = "returned_generate_customer"
    /\ UNCHANGED <<orch_vars, call>>

\* lines 408-430: the provider raises on the names and the outer except
\* builds the record
FallbackCustomer ==
    /\ pc = "generate_customer_try"
    /\ call.provider_fails = "names"
    /\ ret' = Some(FallbackCustomerRecord(local.source_id, local.country))
    /\ pc' = "returned_generate_customer"
    /\ UNCHANGED <<orch_vars, call, local>>

NextGen == DrawSourceAndCountry \/ FillCustomer \/ FallbackCustomer

SpecGen == InitGen /\ [][NextGen]_vars

\* C20 (as claimed): a weight table that is empty or has only zero weights,
\* the email-domain and date-format tables included, ends the call at the
\* first draw from it: no record is returned whose field came from a fallback
\* after that draw
C20_MalformedTableFatal ==
    pc = "returned_generate_customer"
        => /\ WellFormed(call.tables.sources)
           /\ WellFormed(call.tables.countries)
           /\ ~(local.dob_fallback /\ ~WellFormed(call.tables.dob_formats))
           /\ ~(local.email_fallback /\ ~WellFormed(call.tables.email_domains))

\* C21: a failure of the provider never makes generate_customer raise: the
\* call raises only on a draw from a malformed source or country table, a
\* call past those draws is never in the raised state, and the record returned after a
\* provider failure has a customer_id, a name and a surname, with only the
\* failed field degraded (or the whole record replaced by the synthetic one)
C21_ProviderFailureDegrades ==
    /\ pc = "raised_generate_customer"
          => ~(WellFormed(call.tables.sources) /\ WellFormed(call.tables.countries))
    /\ (pc = "raised_generate_customer") => local = <<>>
    /\ (pc = "returned_generate_customer" /\ call.provider_fails # "none")
          => /\ ret[1].customer_id \in CustomerIds
             /\ ret[1].name # <<>>
             /\ ret[1].surname # <<>>
             /\ call.provider_fails = "names"
                   => ret[1] = FallbackCustomerRecord(local.source_id, local.country)
             /\ call.provider_fails = "date_of_birth"
                   => /\ ret[1].date_of_birth \in {None, Some(FallbackDob)}
                      /\ ret[1].name \in add_typo(call.first_name, TRUE)
                                          \cup add_typo(call.first_name, FALSE)
             /\ call.provider_fails = "phone_number"
                   => /\ ret[1].mobile_phone_number \in {None, Some("+39 123-456-7890")}
                      /\ ret[1].date_of_birth
                            \in {None} \cup { Some(x) : x \in FormattedDobs }

C21_Witness ==
    /\ pc = "returned_generate_customer"
    /\ call.provider_fails = "names"
    /\ ret[1].name = <<"U", "s", "e", "r", "_", "4", "7", "1", "1">>
    /\ ret[1].source_id = 2

\* C22: when building a duplicate fails, create_duplicate_customer does not
\* raise, and what it returns is the source record with a new customer_id
\* and the other source_id, every other field as in the source
C22_FallbackDuplicateMinimal ==
    /\ pc \in {"create_duplicate_customer", "returned_create_duplicate_customer"}
    /\ (DuplicateReturned /\ local.path = "fallback")
          => /\ ret[1].customer_id # BaseCustomer.customer_id
             /\ ret[1].source_id = 3 - BaseCustomer.source_id
             /\ \A f \in DOMAIN BaseCustomer \ {"customer_id", "source_id"} :
                    ret[1][f] = BaseCustomer[f]

C22_Witness ==
    /\ DuplicateReturned
    /\ local.path = "fallback"
    /\ BaseCustomer.date_of_birth = Some(<<"1", "2", "/", "2", "5", "/", "8", "5">>)
    /\ ret[1].country = Some("IT")
    /\ ret[1].source_id = 2

\* C27: an optional field (email, mobile phone number, date of birth, country
\* as displayed) is null in a duplicate exactly when it is null in its source
C27_NullsPreserved ==
    DuplicateReturned
        => \A f \in {"email", "mobile_phone_number", "date_of_birth", "country"} :
               (ret[1][f] = None) <=> (BaseCustomer[f] = None)

C27_Witness ==
    /\ DuplicateReturned
    /\ call.match_type = "name"
    /\ BaseCustomer.email # None
    /\ ret[1].email # BaseCustomer.email
    /\ ret[1].mobile_phone_number = None
    /\ ret[1].date_of_birth = None

\* ------------------------------------------ the record functions together
\* the calls of add_typo, force_typo, create_duplicate_customer and
\* generate_customer, each from its own initial states
InitUnits == InitTypo \/ InitDup \/ InitGen

NextUnits == NextTypo \/ NextDup \/ NextGen

SpecUnits == InitUnits /\ [][NextUnits]_vars

\* C23: a record has a name and a surname that are not empty: the base record
\* generate_customer returns (typo or not, fallback or not), the duplicate of
\* a source that has them, and the typo functions never turn a text that is
\* not empty into the empty one
C23_NamesNeverEmpty ==
    /\ pc = "returned_generate_customer"
          => ret[1].name # <<>> /\ ret[1].surname # <<>>
    /\ (DuplicateReturned /\ BaseCustomer.name # <<>> /\ BaseCustomer.surname # <<>>)
          => ret[1].name # <<>> /\ ret[1].surname # <<>>
    /\ (pc \in {"returned_add_typo", "returned_force_typo"} /\ call.text # <<>>)
          => ret # Some(<<>>)

\* typos changed the name and the surname of a base record
C23_Witness ==
    /\ pc = "returned_generate_customer"
    /\ call.provider_fails = "none"
    /\ ret[1].name = <<"i", "L">>
    /\ ret[1].surname = <<"B", "o", "o">>

\* --------------------------------------------------- the run as a whole
\* the base records in the history of accepted records, in order
BasesProduced == SelectSeq(produced, LAMBDA h : h.match_type = "base")

\* C25: a record does not change once it is accepted: every retained base
\* record, every row handed to the sink and every carry-forward record is, in
\* every later state, what it was when its customer was accepted, also when
\* duplicates have been made from the base record
C25_RecordsNeverChanged ==
    LET rows == SinkRows
        bases == BasesProduced
    IN  /\ Len(all_base_customers) = Len(bases)
        /\ \A i \in 1..Len(all_base_customers) : all_base_customers[i] = bases[i].rec
        /\ Len(rows) <= Len(produced)
        /\ \A i \in 1..Len(rows) : rows[i] = ForDb(produced[i].rec)
        /\ Len(all_customer_info) = Len(produced)
        /\ \A i \in 1..Len(produced) : all_customer_info[i] = CustomerInfo(produced[i].rec)
        /\ \A i \in DuplicatesProduced :
               \E j \in 1..Len(all_base_customers) : all_base_customers[j] = produced[i].src

\* two duplicates were made and loaded, and their sources are still retained
C25_Witness ==
    /\ pc = "load"
    /\ Cardinality(DuplicatesProduced) >= 2
    /\ Len(SinkRows) = Len(produced)
    /\ \A i \in DuplicatesProduced :
           /\ produced[i].rec.customer_id # produced[i].src.customer_id
           /\ \E j \in 1..Len(all_base_customers) : all_base_customers[j] = produced[i].src

\* C26: when a duplicate has been made (or is being made) the base stage is
\* over: every base batch has been handed to the sink, the source of each
\* duplicate is among the rows flushed, and all_base_customers no longer grows
C26_DuplicatesAfterBases ==
    (DuplicatesProduced # {} \/ pc \in {"ep_uniq", "nm_uniq"})
        => /\ batch_idx = num_batches
           /\ Len(sink) >= num_batches
           /\ Len(all_base_customers) = Len(BasesProduced)
           /\ LET base_rows == UNION { { sink[k][r] : r \in 1..Min(batch_size, Len(sink[k])) } :
                                      k \in 1..num_batches }
              IN  \A i \in 1..Len(all_base_customers) :
                      ForDb(all_base_customers[i]) \in base_rows
           /\ LET rows == SinkRows
              IN  \A i \in DuplicatesProduced :
                      /\ \A j \in 1..Len(produced) : produced[j].match_type = "base" => j < i
                      /\ ForDb(produced[i].src) \in { rows[r] : r \in 1..Len(rows) }

\* the first duplicate is being made, after two base batches
C26_Witness ==
    /\ pc = "ep_uniq"
    /\ DuplicatesProduced = {}
    /\ num_batches = 2
    /\ Len(sink) = 2
    /\ base = all_base_customers[Len(all_base_customers)]

\* C28: when the run completes, the customer_ids handed to the sink are those
\* of the list returned, each of them in exactly one row
C28_FlushedIdsAreReturnedIds ==
    pc = "done" =>
        LET rows == SinkRows
        IN  /\ IdsOf(rows) = IdsOf(result[1])
            /\ Len(rows) = Len(result[1])
            /\ DistinctIds(rows)
            /\ DistinctIds(result[1])

\* a run completed with three batches in the sink, the last of duplicates
C28_Witness ==
    /\ pc = "done"
    /\ Len(sink) = 3
    /\ Len(result[1]) >= 4
    /\ DuplicatesProduced # {}
    /\ IdsOf(sink[3]) \cap IdsOf(all_base_customers) = {}

\* The steps of a run are taken one after the other by one thread; a call of
\* load_customers returns or raises; generate_customer_id draws at random
\* from a space larger than used_ids, so a loop that draws again does not
\* draw used identifiers forever (drawing the same used identifier again
\* leaves the state as it is).
FairSpec == Spec /\ WF_vars(Next)

\* C24: every run ends, completed (with or without the shortfall warning) or
\* failed on a load_customers error: no loop runs forever
C24_RunTerminates == <>(pc \in {"done", "failed"})

\* a run completed with the shortfall warning, two batches or more in the sink
C24_Witness ==
    /\ pc = "done"
    /\ warned
    /\ Len(result) = 1
    /\ Len(sink) >= 2

\* ------------------------------------ generate_order_dataset_in_batches
MaxOrders == 3

\* carry-forward lists handed over by the customer stage
CustomerInfoLists ==
    LET info(i, c) == [customer_id |-> i, country |-> c, source_id |-> 1]
    IN  {<<>>, <<info(1, "Italy")>>, <<info(1, "Italy"), info(2, "Japan")>>}

InitOrders ==
    /\ OrchestratorIdle
    /\ pc = "orders_batch"
    /\ call \in { [customer_info_list |-> l, num_orders |-> n, batch_size |-> b] :
                    l \in CustomerInfoLists, n \in 0..MaxOrders, b \in 1..MaxBatch }
    /\ local = [batch_idx |-> 0, all_orders_info |-> <<>>, loaded |-> <<>>]
    /\ ret = None

\* order_generator.py lines 113-153: one turn of the batch loop. Each order
\* takes a customer of the list; generate_order_id stands as the position of
\* the order in all_orders_info. load_orders inserts the batch or raises, and
\* the exception is caught at line 152.
OrderBatch ==
    /\ pc = "orders_batch"
    /\ call.customer_info_list # <<>>
    /\ local.batch_idx < NumBatches(call.num_orders, call.batch_size)
    /\ LET this_batch_size ==
               Min(call.batch_size, call.num_orders - local.batch_idx * call.batch_size)
           made == Len(local.all_orders_info)
       IN  IF this_batch_size <= 0
           THEN local' = [local EXCEPT !.batch_idx = @ + 1]
           ELSE \E pick \in [1..this_batch_size -> 1..Len(call.customer_info_list)],
                   load_raises \in BOOLEAN :
                   LET orders_batch ==
                           [k \in 1..this_batch_size |->
                               [order_id |-> made + k,
                                customer_id |-> call.customer_info_list[pick[k]].customer_id]]
                       with_country ==
                           [k \in 1..this_batch_size |->
                               [order_id |-> made + k,
                                customer_id |-> call.customer_info_list[pick[k]].customer_id,
                                country |-> call.customer_info_list[pick[k]].country]]
                   IN  local' = [batch_idx |-> local.batch_idx + 1,
                                 all_orders_info |-> local.all_orders_info \o with_country,
                                 loaded |-> IF load_raises THEN local.loaded
                                            ELSE Append(local.loaded, orders_batch)]
    /\ UNCHANGED <<pc, orch_vars, call, ret>>

\* lines 96-99 and 157-161: the list is returned, empty without customers
ReturnOrders ==
    /\ pc = "orders_batch"
    /\ \/ call.customer_info_list = <<>>
       \/ local.batch_idx >= NumBatches(call.num_orders, call.batch_size)
    /\ ret' = Some(local.all_orders_info)
    /\ pc' = "returned_orders"
    /\ UNCHANGED <<orch_vars, call, local>>

NextOrders == OrderBatch \/ ReturnOrders

SpecOrders == InitOrders /\ [][NextOrders]_vars

\* C29 (as claimed): every order returned has the customer_id of a record of
\* the carry-forward list and is in a batch load_orders has inserted
C29_ReturnedOrdersLoaded ==
    pc = "returned_orders"
        => \A i \in 1..Len(ret[1]) :
               /\ ret[1][i].customer_id \in IdsOf(call.customer_info_list)
               /\ \E r \in 1..Len(Flatten(local.loaded)) :
                      /\ Flatten(local.loaded)[r].order_id = ret[1][i].order_id
                      /\ Flatten(local.loaded)[r].customer_id = ret[1][i].customer_id

\* ------------------------------ generate_transaction_dataset_in_batches
MaxItems == 3

\* transaction_generator.py lines 102-124: orders_info, as many orders as n,
\* nothing loaded yet
InitTransactions ==
    /\ OrchestratorIdle
    /\ pc = "transactions_loop"
    /\ call \in { [orders_info |-> n, batch_size |-> b] :
                    n \in 0..MaxOrders, b \in 1..MaxBatch }
    /\ local = [order_idx |-> 1, all_transactions |-> <<>>, total_transactions |-> 0,
                loads |-> <<>>]
    /\ ret = None

\* lines 133-158: one turn of the loop over orders_info. The order gets 1 to
\* 10 items (1 to MaxItems here), of which any may fail and be left out (line
\* 95); a transaction is written <<order, item>>. One batch is cut off and
\* handed to load_transactions when batch_size or more are waiting.
TransactionsForOrder ==
    /\ pc = "transactions_loop"
    /\ call.orders_info > 0
    /\ local.order_idx <= call.orders_info
    /\ \E num_items \in 1..MaxItems : \E made \in 0..num_items :
          LET order_transactions == [k \in 1..made |-> <<local.order_idx, k>>]
              waiting == local.all_transactions \o order_transactions
              full == Len(waiting) >= call.batch_size
          IN  local' = [order_idx |-> local.order_idx + 1,
                        total_transactions |-> local.total_transactions + made,
                        all_transactions |->
                            IF full THEN SubSeq(waiting, call.batch_size + 1, Len(waiting))
                            ELSE waiting,
                        loads |->
                            IF full THEN Append(local.loads,
                                                SubSeq(waiting, 1, call.batch_size))
                            ELSE local.loads]
    /\ UNCHANGED <<pc, orch_vars, call, ret>>

\* lines 117-120 and 161-171: after the loop what is left is handed to
\* load_transactions in one call; without orders nothing is done
FinishTransactions ==
    /\ pc = "transactions_loop"
    /\ call.orders_info = 0 \/ local.order_idx > call.orders_info
    /\ local' = [local EXCEPT !.loads = IF local.all_transactions # <<>>
                                        THEN Append(@, local.all_transactions) ELSE @]
    /\ pc' = "returned_transactions"
    /\ UNCHANGED <<orch_vars, call, ret>>

NextTransactions == TransactionsForOrder \/ FinishTransactions

SpecTransactions == InitTransactions /\ [][NextTransactions]_vars

\* C30 (as claimed): no call of load_transactions gets more than batch_size
\* records, and at the end every transaction generated has been handed over
\* in exactly one call
C30_TransactionBatchesBounded ==
    /\ \A i \in 1..Len(local.loads) : Len(local.loads[i]) <= call.batch_size
    /\ pc = "returned_transactions"
          => /\ Len(Flatten(local.loads)) = local.total_transactions
             /\ \A i, j \in 1..Len(Flatten(local.loads)) :
                    i # j => Flatten(local.loads)[i] # Flatten(local.loads)[j]

====
